---- MODULE Spec2Model ----
(***************************************************************************)
(* Model of the document-analysis adapter of NicoGrassetto/lisa:           *)
(*   utils.py  _validate_pdf_file, _get_credential,                        *)
(*             _organize_headers_by_level, _extract_bounding_boxes,        *)
(*             extract_data                                                *)
(*   app.py    DocumentIntelligenceProcessor (__init__, _create_client,    *)
(*             analyze_document, _convert_result_to_dict), main            *)
(* Python strings are sequences of one-character strings so that lower(),  *)
(* endswith(), split() and the substring test `in` are computed.  A Python *)
(* value that may be None is a sequence of length 0 (None) or 1 (a value). *)
(***************************************************************************)
EXTENDS Integers, Sequences, FiniteSets, TLC

VARIABLES
  pc,             \* position of the running call
  op,             \* the operation running: extract_data or the app's analysis
  uploaded_file,  \* the uploaded_file argument
  args,           \* the other arguments of the call
  endpoint,       \* the endpoint resolved by the call
  credential,     \* the credential the client is built with
  upstream,       \* what the service answers to the next submission
  attempts,       \* the answers to the submissions made by this call
  retry_count,    \* analyze_document's failure counter
  sleeps,         \* the time.sleep() durations of this call
  events,         \* the steps this call has taken, in order
  response,       \* the AnalyzeResult received
  returned,       \* the value the call returned
  raised,         \* the exception the call raised
  session_state   \* st.session_state: the attributes set by main

vars == <<pc, op, uploaded_file, args, endpoint, credential, upstream,
          attempts, retry_count, sleeps, events, response, returned, raised,
          session_state>>

-----------------------------------------------------------------------------
(* Optional values and strings *)

None == << >>
Some(x) == <<x>>
IsNone(o) == Len(o) = 0
Val(o) == o[1]

\* str.lower() on one character, for the characters the inputs use.
LowerChar(c) ==
  CASE c = "A" -> "a" [] c = "C" -> "c" [] c = "D" -> "d" [] c = "F" -> "f"
    [] c = "G" -> "g" [] c = "H" -> "h" [] c = "I" -> "i" [] c = "L" -> "l"
    [] c = "N" -> "n" [] c = "O" -> "o" [] c = "P" -> "p" [] c = "T" -> "t"
    [] OTHER -> c

\* str.lower()
Lower(s) == [i \in 1..Len(s) |-> LowerChar(s[i])]

\* str.endswith(suffix)
EndsWith(s, suffix) ==
  /\ Len(suffix) <= Len(s)
  /\ SubSeq(s, Len(s) - Len(suffix) + 1, Len(s)) = suffix

\* the substring test `sub in s`
Contains(s, sub) ==
  \E i \in 1..(Len(s) - Len(sub) + 1) : SubSeq(s, i, i + Len(sub) - 1) = sub

\* s + " " + t
Cat(s, t) == s \o t

-----------------------------------------------------------------------------
(* String literals of the source *)

S_dot_pdf == <<".","p","d","f">>
S_application_pdf ==
  <<"a","p","p","l","i","c","a","t","i","o","n","/","p","d","f">>
S_application_x_pdf ==
  <<"a","p","p","l","i","c","a","t","i","o","n","/","x","-","p","d","f">>

-----------------------------------------------------------------------------
(* utils.py: _validate_pdf_file *)

\* 500 * 1024 * 1024, the limit of the size check
MAX_FILE_SIZE == 500 * 1024 * 1024

Ok == [ok |-> TRUE, error |-> "ok"]
Fail(msg) == [ok |-> FALSE, error |-> msg]

\* The MIME check is made only when uploaded_file.type is truthy.
MimeRejected(f) ==
  /\ ~IsNone(f.type)
  /\ Len(Val(f.type)) > 0
  /\ Lower(Val(f.type)) \notin {S_application_pdf, S_application_x_pdf}

\* mutant: an empty file is not rejected
file_is_empty_never(file_size) == FALSE

\* line 87
file_is_empty(file_size) == file_size = 0

\* mutant: the limit itself is rejected
file_too_large_at_limit(file_size) == file_size >= MAX_FILE_SIZE

\* line 90
file_too_large(file_size) == file_size > MAX_FILE_SIZE

\* mutant: the size checks are made before the extension and MIME checks
validate_pdf_file_size_first(file) ==
  IF IsNone(file) THEN Fail("No file provided")
  ELSE LET f == Val(file) IN
    IF file_is_empty(f.size) THEN Fail("File is empty")
    ELSE IF file_too_large(f.size) THEN Fail("File too large")
    ELSE IF ~EndsWith(Lower(f.name), S_dot_pdf) THEN Fail("Invalid file type")
    ELSE IF MimeRejected(f) THEN Fail("Invalid MIME type")
    ELSE Ok

\* _validate_pdf_file(uploaded_file): Ok, or the message of the
\* DocumentIntelligenceError it raises.
validate_pdf_file(file) ==
  IF IsNone(file) THEN Fail("No file provided")
  ELSE LET f == Val(file) IN
    IF ~EndsWith(Lower(f.name), S_dot_pdf) THEN Fail("Invalid file type")
    ELSE IF MimeRejected(f) THEN Fail("Invalid MIME type")
    ELSE IF file_is_empty(f.size) THEN Fail("File is empty")
    ELSE IF file_too_large(f.size) THEN Fail("File too large")
    ELSE Ok

-----------------------------------------------------------------------------
(* Inputs *)

FileNames ==
  { <<"a",".","p","d","f">>, <<"A",".","P","D","F">>,
    <<"a",".","t","x","t">>, <<"p","d","f">> }

MimeTypes ==
  { None, Some(<< >>), Some(S_application_pdf), Some(S_application_x_pdf),
    Some(<<"A","P","P","L","I","C","A","T","I","O","N","/","P","D","F">>),
    Some(<<"t","e","x","t","/","p","l","a","i","n">>) }

FileSizes == {0, 1, MAX_FILE_SIZE, MAX_FILE_SIZE + 1}

\* the uploaded_file argument: None or an uploaded file object
Files ==
  {None} \cup
  { Some([name |-> n, type |-> t, size |-> s]) :
      n \in FileNames, t \in MimeTypes, s \in FileSizes }

-----------------------------------------------------------------------------
(* Upstream analysis result (azure AnalyzeResult) and its parts *)

\* (point.x, point.y): a Python tuple, kept apart from a list
Tuple(x, y) == [tuple |-> <<x, y>>]

Point(x, y) == [x |-> x, y |-> y]
Region(page, polygon) == [page_number |-> page, polygon |-> polygon]

\* `if x:` for a list attribute that may be None
NonEmpty(o) == ~IsNone(o) /\ Len(Val(o)) > 0

\* the list behind `x if x else []`
Items(o) == IF IsNone(o) THEN << >> ELSE Val(o)

MapSeq(F(_), s) == [i \in 1..Len(s) |-> F(s[i])]

RECURSIVE Flatten(_)
Flatten(ss) == IF ss = << >> THEN << >> ELSE Head(ss) \o Flatten(Tail(ss))

RECURSIVE Sum(_)
Sum(s) == IF s = << >> THEN 0 ELSE Head(s) + Sum(Tail(s))

RECURSIVE Min(_)
Min(s) == IF Len(s) = 1 THEN s[1]
          ELSE LET m == Min(Tail(s)) IN IF s[1] <= m THEN s[1] ELSE m

RECURSIVE Max(_)
Max(s) == IF Len(s) = 1 THEN s[1]
          ELSE LET m == Max(Tail(s)) IN IF s[1] >= m THEN s[1] ELSE m

RECURSIVE Gcd(_, _)
Gcd(a, b) == IF b = 0 THEN a ELSE Gcd(b, a % b)

\* sum(pool) / len(pool) as a fraction in lowest terms
Mean(pool) ==
  LET n == Sum(pool)
      d == Len(pool)
      g == Gcd(n, d)
  IN [num |-> n \div g, den |-> d \div g]

-----------------------------------------------------------------------------
(* utils.py: the bounding_regions loops of extract_data and                *)
(* _organize_headers_by_level (lines 170-176, 294-300, 318-324, 353-359)   *)

region_data(region) ==
  [page_number |-> region.page_number,
   polygon |-> MapSeq(LAMBDA pt : Tuple(pt.x, pt.y), region.polygon)]

\* `for region in element.bounding_regions` raises TypeError on None
RegionsRaise(element) == IsNone(element.bounding_regions)

bounding_regions_of(element) ==
  MapSeq(region_data, Items(element.bounding_regions))

-----------------------------------------------------------------------------
(* utils.py: _organize_headers_by_level *)

S_title == <<"t","i","t","l","e">>
S_heading == <<"h","e","a","d","i","n","g">>
S_h1 == <<"h","1">>
S_h2 == <<"h","2">>
S_h3 == <<"h","3">>
S_h4 == <<"h","4">>
S_h5 == <<"h","5">>
S_h6 == <<"h","6">>

\* lines 140-142: the paragraph is a header
IsHeader(paragraph) ==
  /\ ~IsNone(paragraph.role)
  /\ Len(Val(paragraph.role)) > 0
  /\ \/ Contains(Lower(Val(paragraph.role)), S_title)
     \/ Contains(Lower(Val(paragraph.role)), S_heading)

\* mutant: 'title' is looked for only after the six level tags
HeaderLevel_title_last(role) ==
  LET role_lower == Lower(role) IN
  IF Contains(role_lower, S_h1) THEN "h1"
  ELSE IF Contains(role_lower, S_h2) THEN "h2"
  ELSE IF Contains(role_lower, S_h3) THEN "h3"
  ELSE IF Contains(role_lower, S_h4) THEN "h4"
  ELSE IF Contains(role_lower, S_h5) THEN "h5"
  ELSE IF Contains(role_lower, S_h6) THEN "h6"
  ELSE "h1"

\* lines 144-158: the level of a header role
HeaderLevel(role) ==
  LET role_lower == Lower(role) IN
  IF Contains(role_lower, S_h1) \/ Contains(role_lower, S_title) THEN "h1"
  ELSE IF Contains(role_lower, S_h2) THEN "h2"
  ELSE IF Contains(role_lower, S_h3) THEN "h3"
  ELSE IF Contains(role_lower, S_h4) THEN "h4"
  ELSE IF Contains(role_lower, S_h5) THEN "h5"
  ELSE IF Contains(role_lower, S_h6) THEN "h6"
  ELSE "h1"

\* lines 163-176
header_info(paragraph) ==
  [content |-> paragraph.content,
   confidence |-> paragraph.confidence,
   bounding_regions |-> bounding_regions_of(paragraph)]

\* mutant: the record is inserted at the front of its level
AppendHeader_at_front(headers_by_level, level, info) ==
  IF level \in DOMAIN headers_by_level
  THEN [headers_by_level EXCEPT ![level] = <<info>> \o @]
  ELSE (level :> <<info>>) @@ headers_by_level

\* lines 160-161, 178: headers_by_level[level].append(header_info)
AppendHeader(headers_by_level, level, info) ==
  IF level \in DOMAIN headers_by_level
  THEN [headers_by_level EXCEPT ![level] = Append(@, info)]
  ELSE (level :> <<info>>) @@ headers_by_level

\* the loop of lines 139-178, from the dictionary built so far
RECURSIVE organize_loop(_, _)
organize_loop(headers_by_level, paragraphs) ==
  IF paragraphs = << >> THEN headers_by_level
  ELSE LET paragraph == Head(paragraphs) IN
    IF IsHeader(paragraph)
    THEN organize_loop(
           AppendHeader(headers_by_level, HeaderLevel(Val(paragraph.role)),
                        header_info(paragraph)),
           Tail(paragraphs))
    ELSE organize_loop(headers_by_level, Tail(paragraphs))

\* _organize_headers_by_level(paragraphs); {} is the function of empty domain
organize_headers_by_level(paragraphs) == organize_loop(<< >>, paragraphs)

\* the only exception of the loop: a header paragraph whose bounding_regions
\* is None
organize_raises(paragraphs) ==
  \E i \in 1..Len(paragraphs) :
    IsHeader(paragraphs[i]) /\ RegionsRaise(paragraphs[i])

-----------------------------------------------------------------------------
(* utils.py: _extract_bounding_boxes *)

\* getattr(element, 'content', '')
content_of(element) ==
  IF "content" \in DOMAIN element THEN element.content ELSE ""

\* lines 113-122: the boxes of one element
element_boxes(element) ==
  IF ~NonEmpty(element.bounding_regions) THEN << >>
  ELSE MapSeq(
         LAMBDA region :
           [page_number |-> region.page_number,
            polygon |-> MapSeq(LAMBDA pt : Tuple(pt.x, pt.y), region.polygon),
            content |-> content_of(element),
            element_type |-> element.class,
            confidence |-> element.confidence],
         SelectSeq(Val(element.bounding_regions),
                   LAMBDA region : Len(region.polygon) > 0))

extract_bounding_boxes(elements) == Flatten(MapSeq(element_boxes, elements))

-----------------------------------------------------------------------------
(* utils.py: extract_data, lines 270-433: the result dictionary *)

\* d[k] = v on a Python dictionary
Assign(d, k, v) == (k :> v) @@ d

\* mutant: the 'headers' key is created only when it is assigned
initial_extracted_data_without_headers ==
  [paragraphs |-> << >>, formulas |-> << >>,
   tables |-> << >>, key_value_pairs |-> << >>, bounding_boxes |-> << >>,
   pages |-> << >>, document_metadata |-> << >>, confidence_scores |-> << >>]

\* lines 271-281
initial_extracted_data ==
  [paragraphs |-> << >>, headers |-> << >>, formulas |-> << >>,
   tables |-> << >>, key_value_pairs |-> << >>, bounding_boxes |-> << >>,
   pages |-> << >>, document_metadata |-> << >>, confidence_scores |-> << >>]

\* lines 286-300
para_data(paragraph) ==
  [content |-> paragraph.content,
   role |-> paragraph.role,
   confidence |-> paragraph.confidence,
   bounding_regions |-> bounding_regions_of(paragraph)]

\* lines 310-324
formula_data(formula) ==
  [content |-> formula.value,
   confidence |-> formula.confidence,
   kind |-> formula.kind,
   bounding_regions |-> bounding_regions_of(formula)]

\* lines 341-349
cell_data(cell) ==
  [content |-> cell.content, row_index |-> cell.row_index,
   column_index |-> cell.column_index, row_span |-> cell.row_span,
   column_span |-> cell.column_span, confidence |-> cell.confidence,
   kind |-> cell.kind]

\* lines 331-359
table_data(table) ==
  [row_count |-> table.row_count,
   column_count |-> table.column_count,
   cells |-> MapSeq(cell_data, table.cells),
   confidence |-> table.confidence,
   bounding_regions |-> bounding_regions_of(table)]

\* lines 366-370
kv_data(kv_pair) ==
  [key |-> IF IsNone(kv_pair.key) THEN None ELSE Some(Val(kv_pair.key).content),
   value |-> IF IsNone(kv_pair.value) THEN None
             ELSE Some(Val(kv_pair.value).content),
   confidence |-> kv_pair.confidence]

\* lines 387-395
page_data(page) ==
  [page_number |-> page.page_number, width |-> page.width,
   height |-> page.height, unit |-> page.unit, angle |-> page.angle,
   lines_count |-> Len(Items(page.lines)),
   words_count |-> Len(Items(page.words))]

\* lines 374-380
all_elements(result) ==
  Items(result.paragraphs) \o Items(result.tables) \o Items(result.formulas)

\* lines 399-405; result.content is modelled by its length
document_metadata(result, file, file_size) ==
  [model_id |-> result.model_id,
   total_pages |-> Len(Items(result.pages)),
   file_name |-> file.name,
   file_size_bytes |-> file_size,
   content_length |-> Val(result.content)]

\* lines 408-413: [x.get('confidence') for x in xs if ... is not None]
confidences(xs) ==
  MapSeq(LAMBDA x : Val(x.confidence),
         SelectSeq(xs, LAMBDA x : ~IsNone(x.confidence)))

\* mutant: the minimum and the maximum are taken over the paragraphs only
confidence_scores_paragraphs_only(extracted_data) ==
  LET paragraph_confidences == confidences(extracted_data.paragraphs)
      table_confidences == confidences(extracted_data.tables)
      formula_confidences == confidences(extracted_data.formulas)
      all == paragraph_confidences
      avg(pool) == IF Len(pool) > 0 THEN Some(Mean(pool)) ELSE None
  IN [average_paragraph_confidence |-> avg(paragraph_confidences),
      average_table_confidence |-> avg(table_confidences),
      average_formula_confidence |-> avg(formula_confidences),
      min_confidence |-> IF Len(all) > 0 THEN Some(Min(all)) ELSE None,
      max_confidence |-> IF Len(all) > 0 THEN Some(Max(all)) ELSE None]

\* lines 415-426
confidence_scores(extracted_data) ==
  LET paragraph_confidences == confidences(extracted_data.paragraphs)
      table_confidences == confidences(extracted_data.tables)
      formula_confidences == confidences(extracted_data.formulas)
      all == paragraph_confidences \o table_confidences \o formula_confidences
      avg(pool) == IF Len(pool) > 0 THEN Some(Mean(pool)) ELSE None
  IN [average_paragraph_confidence |-> avg(paragraph_confidences),
      average_table_confidence |-> avg(table_confidences),
      average_formula_confidence |-> avg(formula_confidences),
      min_confidence |-> IF Len(all) > 0 THEN Some(Min(all)) ELSE None,
      max_confidence |-> IF Len(all) > 0 THEN Some(Max(all)) ELSE None]

\* The exceptions of lines 270-433 on the modelled results: iterating a
\* bounding_regions that is None, and len(result.content) of a content
\* that is None.  Both are TypeError.
transform_raises(result) ==
  \/ \E i \in 1..Len(all_elements(result)) :
       RegionsRaise(all_elements(result)[i])
  \/ IsNone(result.content)

\* lines 284-305
with_paragraphs(d, result) ==
  IF NonEmpty(result.paragraphs)
  THEN Assign(
         Assign(d, "paragraphs",
                d.paragraphs \o MapSeq(para_data, Val(result.paragraphs))),
         "headers", organize_headers_by_level(Val(result.paragraphs)))
  ELSE d

\* lines 308-326
with_formulas(d, result) ==
  IF NonEmpty(result.formulas)
  THEN Assign(d, "formulas",
              d.formulas \o MapSeq(formula_data, Val(result.formulas)))
  ELSE d

\* lines 329-361
with_tables(d, result) ==
  IF NonEmpty(result.tables)
  THEN Assign(d, "tables", d.tables \o MapSeq(table_data, Val(result.tables)))
  ELSE d

\* lines 364-371
with_key_value_pairs(d, result) ==
  IF NonEmpty(result.key_value_pairs)
  THEN Assign(d, "key_value_pairs",
              d.key_value_pairs \o MapSeq(kv_data, Val(result.key_value_pairs)))
  ELSE d

\* lines 385-396
with_pages(d, result) ==
  IF NonEmpty(result.pages)
  THEN Assign(d, "pages", d.pages \o MapSeq(page_data, Val(result.pages)))
  ELSE d

\* lines 270-433: the dictionary extract_data returns for an upstream
\* result on which the transformation does not raise
extracted_data_of(result, file, file_size) ==
  LET d1 == with_paragraphs(initial_extracted_data, result)
      d2 == with_formulas(d1, result)
      d3 == with_tables(d2, result)
      d4 == with_key_value_pairs(d3, result)
      d5 == Assign(d4, "bounding_boxes",
                   extract_bounding_boxes(all_elements(result)))
      d6 == with_pages(d5, result)
      d7 == Assign(d6, "document_metadata",
                   document_metadata(result, file, file_size))
  IN Assign(d7, "confidence_scores", confidence_scores(d7))

-----------------------------------------------------------------------------
(* Exceptions *)

Exc(type, status, msg) == [type |-> type, status |-> status, msg |-> msg]

DocumentIntelligenceError(msg) ==
  Exc("DocumentIntelligenceError", "none", msg)

\* what the service answers to one submission
Outcomes ==
  {"ok", "HttpResponseError_4xx", "HttpResponseError_5xx",
   "ServiceRequestError"}

\* mutant: the exception kept is that of the first submission
UpstreamException_of_first_attempt(outcome, n) ==
  CASE outcome = "HttpResponseError_4xx" ->
         Exc("HttpResponseError", "4xx", <<outcome, 1>>)
    [] outcome = "HttpResponseError_5xx" ->
         Exc("HttpResponseError", "5xx", <<outcome, 1>>)
    [] OTHER -> Exc("ServiceRequestError", "none", <<outcome, 1>>)

\* the exception begin_analyze_document / poller.result() raises for a
\* failing answer; n is the number of the submission
UpstreamException(outcome, n) ==
  CASE outcome = "HttpResponseError_4xx" ->
         Exc("HttpResponseError", "4xx", <<outcome, n>>)
    [] outcome = "HttpResponseError_5xx" ->
         Exc("HttpResponseError", "5xx", <<outcome, n>>)
    [] OTHER -> Exc("ServiceRequestError", "none", <<outcome, n>>)

\* mutant: without the clause `except Exception` of lines 445-448
except_clauses_upstream_only(e) ==
  IF e.type = "HttpResponseError"
  THEN DocumentIntelligenceError(
         <<"Azure Document Intelligence HTTP error: ">> \o e.msg)
  ELSE IF e.type = "ServiceRequestError"
  THEN DocumentIntelligenceError(
         <<"Azure Document Intelligence service error: ">> \o e.msg)
  ELSE e

\* utils.py lines 435-448: the except clauses of extract_data
except_clauses(e) ==
  IF e.type = "HttpResponseError"
  THEN DocumentIntelligenceError(
         <<"Azure Document Intelligence HTTP error: ">> \o e.msg)
  ELSE IF e.type = "ServiceRequestError"
  THEN DocumentIntelligenceError(
         <<"Azure Document Intelligence service error: ">> \o e.msg)
  ELSE DocumentIntelligenceError(
         <<"Unexpected error during document analysis: ">> \o e.msg)

-----------------------------------------------------------------------------
(* Bounds and inputs of the calls *)

\* `if not x` for an optional string
Falsy(o) == IsNone(o) \/ Val(o) = ""

EndpointArgs == {None, Some(""), Some("https://arg.example")}
EndpointEnv == {None, Some("https://env.example")}
ApiKeyArgs == {None, Some(""), Some("arg-key")}
ApiKeyEnv == {None, Some("env-key")}

NoArgs ==
  [endpoint |-> None, use_key_credential |-> FALSE, api_key |-> None,
   credential_type |-> "managed_identity"]

\* files of the calls: one per outcome of the validation
SampleFiles ==
  { None,
    Some([name |-> <<"a",".","p","d","f">>, type |-> Some(S_application_pdf),
          size |-> 1]),
    Some([name |-> <<"A",".","P","D","F">>, type |-> None,
          size |-> MAX_FILE_SIZE]),
    Some([name |-> <<"a",".","t","x","t">>, type |-> None, size |-> 1]),
    Some([name |-> <<"a",".","p","d","f">>,
          type |-> Some(<<"t","e","x","t","/","p","l","a","i","n">>),
          size |-> 1]),
    Some([name |-> <<"a",".","p","d","f">>, type |-> None, size |-> 0]),
    Some([name |-> <<"a",".","p","d","f">>, type |-> None,
          size |-> MAX_FILE_SIZE + 1]) }

-----------------------------------------------------------------------------
(* Upstream results the service can answer with *)

Paragraph(content, role, confidence, bounding_regions) ==
  [class |-> "DocumentParagraph", content |-> content, role |-> role,
   confidence |-> confidence, bounding_regions |-> bounding_regions]

Cell ==
  [content |-> "cell", row_index |-> 0, column_index |-> 0, row_span |-> 1,
   column_span |-> 1, confidence |-> None, kind |-> Some("content")]

Table(confidence, bounding_regions) ==
  [class |-> "DocumentTable", row_count |-> 1, column_count |-> 1,
   cells |-> <<Cell>>, confidence |-> confidence,
   bounding_regions |-> bounding_regions]

Formula(confidence, bounding_regions) ==
  [class |-> "DocumentFormula", value |-> "x=1", confidence |-> confidence,
   kind |-> Some("inline"), bounding_regions |-> bounding_regions]

KeyValuePair ==
  [key |-> Some([content |-> "k"]), value |-> None, confidence |-> Some(50)]

\* a line of a page; the polygon of its region may be None
Line(content, polygon) ==
  [content |-> content,
   bounding_regions |-> Some(<<[page_number |-> 1, polygon |-> polygon]>>)]

PageOf(lines) ==
  [page_number |-> 1, width |-> 8, height |-> 11, unit |-> Some("inch"),
   angle |-> Some(0), lines |-> lines, words |-> None]

Page ==
  PageOf(Some(<<Line("l1", Some(<<Point(0, 0), Point(1, 0)>>)),
                Line("l2", Some(<< >>))>>))

\* a page with a line whose region has no polygon value
PageBadLine == PageOf(Some(<<Line("l1", None)>>))

AnalyzeResult(paragraphs, tables, formulas, key_value_pairs, pages) ==
  [paragraphs |-> paragraphs, tables |-> tables, formulas |-> formulas,
   key_value_pairs |-> key_value_pairs, pages |-> pages,
   model_id |-> "prebuilt-layout", content |-> Some(12)]

Region1 == Region(1, <<Point(0, 0), Point(1, 0), Point(1, 1)>>)
Region2 == Region(2, <<Point(2, 2), Point(3, 2), Point(3, 3)>>)
RegionNoPolygon == Region(1, << >>)

RegionOptions ==
  { None, Some(<< >>), Some(<<Region1>>), Some(<<Region1, Region2>>),
    Some(<<RegionNoPolygon>>) }

Space == <<" ">>
S_sectionHeading ==
  <<"s","e","c","t","i","o","n","H","e","a","d","i","n","g">>

\* paragraph roles: absent, empty, and labels with and without a level
Roles ==
  { None, Some(<< >>),
    Some(S_title),
    Some(S_heading),
    Some(<<"p","a","g","e","F","o","o","t","e","r">>),
    Some(Cat(S_sectionHeading, Cat(Space, S_h2))),
    Some(Cat(S_title, Cat(Space, S_h2))),
    Some(Cat(S_heading, Cat(Space, Cat(S_h3, Cat(Space, S_h2))))),
    Some(Cat(<<"H","e","a","d","i","n","g">>, Cat(Space, <<"H","4">>))),
    Some(Cat(S_heading, Cat(Space, S_h5))),
    Some(Cat(S_sectionHeading, Cat(Space, S_h6))) }

Confidences == {None, Some(70), Some(90)}

\* paragraphs, tables and formulas of the results the transformation is
\* applied to
MaxParagraphs == 3
MaxConfParagraphs == 2
MaxTables == 1
MaxFormulas == 1

ParagraphContent(i) == <<"p1", "p2", "p3", "p4", "p5", "p6">>[i]

SeqsUpTo(S, n) == UNION { [1..k -> S] : k \in 0..n }

\* results whose paragraphs differ in their roles
RoleResults ==
  { AnalyzeResult(
      Some([i \in 1..Len(rs) |->
              Paragraph(ParagraphContent(i), rs[i], Some(90),
                        Some(<<Region1>>))]),
      None, None, None, None) : rs \in SeqsUpTo(Roles, MaxParagraphs) }

\* results whose elements differ in their confidences
ConfidenceResults ==
  { AnalyzeResult(
      Some([i \in 1..Len(ps) |->
              Paragraph(ParagraphContent(i), Some(S_title), ps[i],
                        Some(<<Region1>>))]),
      Some([i \in 1..Len(ts) |-> Table(ts[i], Some(<<Region2>>))]),
      Some([i \in 1..Len(fs) |-> Formula(fs[i], Some(<< >>))]),
      Some(<<KeyValuePair>>), Some(<<Page>>)) :
      ps \in SeqsUpTo(Confidences, MaxConfParagraphs),
      ts \in SeqsUpTo(Confidences, MaxTables),
      fs \in SeqsUpTo(Confidences, MaxFormulas) }

\* results whose elements differ in their bounding regions
RegionResults ==
  { AnalyzeResult(
      Some(<<Paragraph("p1", Some(S_heading), Some(90), rp)>>),
      Some(<<Table(None, rt)>>),
      Some(<<Formula(Some(80), rf)>>), None, Some(<<Page>>)) :
      rp \in RegionOptions, rt \in RegionOptions, rf \in RegionOptions }

\* results with nothing in them, as None and as empty lists
EmptyResults ==
  { AnalyzeResult(None, None, None, None, None),
    AnalyzeResult(Some(<< >>), Some(<< >>), Some(<< >>), Some(<< >>),
                  Some(<< >>)),
    [AnalyzeResult(None, None, None, None, None) EXCEPT !.content = None] }

AllResults ==
  RoleResults \cup ConfidenceResults \cup RegionResults \cup EmptyResults

\* the results of the calls: empty, full, and one the transformation raises on
SampleResults ==
  EmptyResults \cup
  { AnalyzeResult(
      Some(<<Paragraph("p1", Some(S_title), Some(90), Some(<<Region1>>)),
             Paragraph("p2", Some(<<"p","a","g","e","F","o","o","t","e","r">>),
                       None, Some(<<Region1, Region2>>))>>),
      Some(<<Table(Some(70), Some(<<Region2>>))>>),
      Some(<<Formula(Some(80), Some(<<Region1>>))>>),
      Some(<<KeyValuePair>>), Some(<<Page>>)),
    AnalyzeResult(
      Some(<<Paragraph("p1", Some(S_heading), None, None)>>),
      None, None, None, None),
    AnalyzeResult(
      Some(<<Paragraph("p1", Some(S_heading), Some(80), Some(<< >>))>>),
      None, None, None, Some(<<PageBadLine>>)) }

-----------------------------------------------------------------------------
(* app.py: SUPPORTED_EXTENSIONS and _convert_result_to_dict *)

SUPPORTED_EXTENSIONS ==
  { <<"p","d","f">>, <<"j","p","g">>, <<"j","p","e","g">>, <<"p","n","g">>,
    <<"b","m","p">>, <<"t","i","f","f">>, <<"h","e","i","f">>,
    <<"d","o","c","x">>, <<"x","l","s","x">>, <<"p","p","t","x">>,
    <<"h","t","m","l">> }

\* name.split('.')[-1]
RECURSIVE LastPart(_)
LastPart(name) ==
  IF \A i \in 1..Len(name) : name[i] # "." THEN name
  ELSE LastPart(Tail(name))

\* line 278
file_extension(name) == Lower(LastPart(name))

\* lines 160-172
line_info(line) ==
  [content |-> line.content,
   bounding_regions |->
     MapSeq(LAMBDA region :
              [page_number |-> region.page_number,
               polygon |-> MapSeq(LAMBDA pt : [x |-> pt.x, y |-> pt.y],
                                  Val(region.polygon))],
            Items(line.bounding_regions))]

\* lines 149-155, 174
page_info(page) ==
  [page_number |-> page.page_number, width |-> page.width,
   height |-> page.height, unit |-> page.unit,
   lines |-> MapSeq(line_info, Items(page.lines))]

\* lines 181-197
table_info(table) ==
  [row_count |-> table.row_count, column_count |-> table.column_count,
   cells |-> MapSeq(LAMBDA cell :
                      [content |-> cell.content, row_index |-> cell.row_index,
                       column_index |-> cell.column_index,
                       row_span |-> cell.row_span,
                       column_span |-> cell.column_span],
                    table.cells)]

\* lines 204-207
paragraph_info(paragraph) ==
  [content |-> paragraph.content, role |-> paragraph.role]

\* line 170: iterating a polygon that is None raises TypeError
convert_raises(result) ==
  \E i \in 1..Len(Items(result.pages)) :
    LET page == Items(result.pages)[i] IN
    \E j \in 1..Len(Items(page.lines)) :
      LET line == Items(page.lines)[j] IN
      \E k \in 1..Len(Items(line.bounding_regions)) :
        IsNone(Items(line.bounding_regions)[k].polygon)

\* mutant: the except clause returns the error without the raw content
convert_result_to_dict_without_raw(result) ==
  IF convert_raises(result)
  THEN [error |-> <<"Failed to process result: ", "TypeError">>]
  ELSE [model_id |-> Some(result.model_id),
        api_version |-> None,
        content |-> result.content,
        pages |-> MapSeq(page_info, Items(result.pages)),
        tables |-> MapSeq(table_info, Items(result.tables)),
        paragraphs |-> MapSeq(paragraph_info, Items(result.paragraphs)),
        styles |-> << >>]

\* lines 134-218: _convert_result_to_dict(result)
convert_result_to_dict(result) ==
  IF convert_raises(result)
  THEN [error |-> <<"Failed to process result: ", "TypeError">>,
        raw_content |-> Some("str(result)")]
  ELSE [model_id |-> Some(result.model_id),
        api_version |-> None,
        content |-> result.content,
        pages |-> MapSeq(page_info, Items(result.pages)),
        tables |-> MapSeq(table_info, Items(result.tables)),
        paragraphs |-> MapSeq(paragraph_info, Items(result.paragraphs)),
        styles |-> << >>]

-----------------------------------------------------------------------------
(* utils.py: _get_credential *)

\* DefaultAzureCredential() and InteractiveBrowserCredential() either
\* construct or raise
get_credential(default_ok, browser_ok) ==
  IF default_ok THEN Some([kind |-> "DefaultAzureCredential", key |-> ""])
  ELSE IF browser_ok
  THEN Some([kind |-> "InteractiveBrowserCredential", key |-> ""])
  ELSE None

-----------------------------------------------------------------------------
(* The state machine *)

Init ==
  /\ pc = "idle"
  /\ op = "none"
  /\ uploaded_file = None
  /\ args = NoArgs
  /\ endpoint = None
  /\ credential = None
  /\ upstream = None
  /\ attempts = << >>
  /\ retry_count = 0
  /\ sleeps = << >>
  /\ events = << >>
  /\ response = None
  /\ returned = None
  /\ raised = None
  /\ session_state = << >>

\* the call ends by raising e
Raise(e) ==
  /\ pc' = "done"
  /\ raised' = Some(e)
  /\ returned' = None

\* the call ends by returning v
ReturnValue(v) ==
  /\ pc' = "done"
  /\ returned' = Some(v)
  /\ raised' = None

\* one submission: begin_analyze_document(...) and poller.result(); the
\* service answers it, and next is what it would answer to one more
Submit(next) ==
  /\ attempts' = Append(attempts, Val(upstream))
  /\ upstream' = Some(next)
  /\ events' = Append(events, "submit")

-----------------------------------------------------------------------------
(* utils.py: extract_data *)

\* extract_data(uploaded_file, endpoint, use_key_credential, api_key)
ED_Call(file, ep, use_key, key) ==
  /\ pc = "idle"
  /\ pc' = "ed_validate"
  /\ op' = "extract_data"
  /\ uploaded_file' = file
  /\ args' = [NoArgs EXCEPT !.endpoint = ep, !.use_key_credential = use_key,
                             !.api_key = key]
  /\ UNCHANGED <<endpoint, credential, upstream, attempts, retry_count,
                 sleeps, events, response, returned, raised,
                 session_state>>

\* line 223; the DocumentIntelligenceError of the validation is caught by
\* `except Exception` (line 445) and wrapped
ED_Validate ==
  /\ pc = "ed_validate"
  /\ LET v == validate_pdf_file(uploaded_file) IN
     IF v.ok
     THEN /\ pc' = "ed_endpoint"
          /\ events' = Append(events, "validate")
          /\ UNCHANGED <<returned, raised>>
     ELSE /\ Raise(except_clauses(DocumentIntelligenceError(<<v.error>>)))
          /\ UNCHANGED events
  /\ UNCHANGED <<op, uploaded_file, args, endpoint, credential, upstream,
                 attempts, retry_count, sleeps, response,
                 session_state>>

\* lines 226-232; env is AZURE_DOCUMENT_INTELLIGENCE_ENDPOINT
ED_Endpoint(env) ==
  /\ pc = "ed_endpoint"
  /\ LET ep == IF Falsy(args.endpoint) THEN env ELSE args.endpoint IN
     IF Falsy(ep)
     THEN /\ Raise(except_clauses(DocumentIntelligenceError(
                     <<"Document Intelligence endpoint not provided">>)))
          /\ UNCHANGED <<endpoint, events>>
     ELSE /\ pc' = "ed_credential"
          /\ endpoint' = ep
          /\ events' = Append(events, "endpoint")
          /\ UNCHANGED <<returned, raised>>
  /\ UNCHANGED <<op, uploaded_file, args, credential, upstream, attempts,
                 retry_count, sleeps, response,
                 session_state>>

\* mutant: the key is used without the test of lines 236-242
ed_credential_unchecked(env_key, default_ok, browser_ok) ==
  IF args.use_key_credential
  THEN LET api_key == IF Falsy(args.api_key) THEN env_key ELSE args.api_key
       IN Some([kind |-> "AzureKeyCredential",
                key |-> IF IsNone(api_key) THEN "" ELSE Val(api_key)])
  ELSE get_credential(default_ok, browser_ok)

\* mutant: without a key the ambient credentials are tried as a fallback
ed_credential_layered(env_key, default_ok, browser_ok) ==
  IF args.use_key_credential
  THEN LET api_key == IF Falsy(args.api_key) THEN env_key ELSE args.api_key
       IN IF Falsy(api_key) THEN get_credential(default_ok, browser_ok)
          ELSE Some([kind |-> "AzureKeyCredential", key |-> Val(api_key)])
  ELSE get_credential(default_ok, browser_ok)

\* lines 235-246: the credential, or None when the code raises
ed_credential(env_key, default_ok, browser_ok) ==
  IF args.use_key_credential
  THEN LET api_key == IF Falsy(args.api_key) THEN env_key ELSE args.api_key
       IN IF Falsy(api_key) THEN None
          ELSE Some([kind |-> "AzureKeyCredential", key |-> Val(api_key)])
  ELSE get_credential(default_ok, browser_ok)

\* lines 235-249; env_key is AZURE_DOCUMENT_INTELLIGENCE_KEY; answer is what
\* the service will answer to the first submission of the client built here
ED_Credential(env_key, default_ok, browser_ok, answer) ==
  /\ pc = "ed_credential"
  /\ LET c == ed_credential(env_key, default_ok, browser_ok) IN
     IF IsNone(c)
     THEN /\ Raise(except_clauses(DocumentIntelligenceError(
                     IF args.use_key_credential
                     THEN <<"API key not provided">>
                     ELSE <<"Failed to acquire Azure credentials">>)))
          /\ UNCHANGED <<credential, upstream, events>>
     ELSE /\ pc' = "ed_submit"
          /\ credential' = c
          /\ upstream' = Some(answer)
          /\ events' = Append(events, "credential")
          /\ UNCHANGED <<returned, raised>>
  /\ UNCHANGED <<op, uploaded_file, args, endpoint, attempts, retry_count,
                 sleeps, response,
                 session_state>>

\* lines 259-266 and the except clauses of lines 435-443; r is the result
\* the poller gives when the service answers ok
ED_Submit(r, next) ==
  /\ pc = "ed_submit"
  /\ Submit(next)
  /\ IF Val(upstream) = "ok"
     THEN /\ pc' = "ed_transform"
          /\ response' = Some(r)
          /\ UNCHANGED <<returned, raised>>
     ELSE /\ Raise(except_clauses(
                     UpstreamException(Val(upstream), Len(attempts) + 1)))
          /\ UNCHANGED response
  /\ UNCHANGED <<op, uploaded_file, args, endpoint, credential, retry_count,
                 sleeps,
                 session_state>>

\* lines 270-433 and the except clause of lines 445-448
ED_Transform ==
  /\ pc = "ed_transform"
  /\ LET result == Val(response)
         file == Val(uploaded_file)
     IN IF transform_raises(result)
        THEN Raise(except_clauses(Exc("TypeError", "none", <<"TypeError">>)))
        ELSE ReturnValue(extracted_data_of(result, file, file.size))
  /\ UNCHANGED <<op, uploaded_file, args, endpoint, credential, upstream,
                 attempts, retry_count, sleeps, events, response,
                 session_state>>

-----------------------------------------------------------------------------
(* app.py: main, DocumentIntelligenceProcessor *)

\* line 91
max_retries == 3

\* mutant: one failure more is needed to give up
retries_exhausted_late(count) == count > max_retries

\* mutant: the call gives up one failure early
retries_exhausted_early(count) == count >= max_retries - 1

\* line 116
retries_exhausted(count) == count >= max_retries

\* main, lines 272-289: the Analyze button is pressed on an uploaded file
Main_Analyze(file, ep, auth_method) ==
  /\ pc = "idle"
  /\ ~IsNone(file)
  /\ op' = "analyze_document"
  /\ uploaded_file' = file
  /\ args' = [NoArgs EXCEPT !.endpoint = Some(ep),
                             !.credential_type = auth_method]
  /\ IF file_extension(Val(file).name) \notin SUPPORTED_EXTENSIONS
     THEN /\ pc' = "done"
          /\ events' = <<"unsupported">>
          /\ UNCHANGED endpoint
     ELSE IF ep = ""
     THEN /\ pc' = "done"
          /\ events' = <<"validate", "no_endpoint">>
          /\ UNCHANGED endpoint
     ELSE /\ pc' = "p_init"
          /\ events' = <<"validate", "endpoint">>
          /\ endpoint' = Some(ep)
  /\ UNCHANGED <<credential, upstream, attempts, retry_count, sleeps,
                 response, returned, raised,
                 session_state>>

\* _create_client, lines 59-70: the credential, or None when the code raises
create_client_credential(env_key, default_ok) ==
  IF args.credential_type = "managed_identity"
  THEN IF default_ok
       THEN Some([kind |-> "DefaultAzureCredential", key |-> ""])
       ELSE None
  ELSE IF Falsy(env_key) THEN None
       ELSE Some([kind |-> "AzureKeyCredential", key |-> Val(env_key)])

\* __init__ and _create_client, lines 48-78; env_key is
\* DOCUMENT_INTELLIGENCE_KEY
P_Init(env_key, default_ok, answer) ==
  /\ pc = "p_init"
  /\ LET c == create_client_credential(env_key, default_ok) IN
     IF IsNone(c)
     THEN /\ Raise(IF args.credential_type = "managed_identity"
                   THEN Exc("CredentialUnavailableError", "none",
                            <<"DefaultAzureCredential failed">>)
                   ELSE Exc("ValueError", "none",
                            <<"DOCUMENT_INTELLIGENCE_KEY environment variable not set">>))
          /\ UNCHANGED <<credential, upstream, events>>
     ELSE /\ pc' = "ad_call"
          /\ credential' = c
          /\ upstream' = Some(answer)
          /\ events' = Append(events, "credential")
          /\ UNCHANGED <<returned, raised>>
  /\ UNCHANGED <<op, uploaded_file, args, endpoint, attempts, retry_count,
                 sleeps, response,
                 session_state>>

\* analyze_document, lines 91-92
AD_Call ==
  /\ pc = "ad_call"
  /\ pc' = "ad_loop"
  /\ retry_count' = 0
  /\ UNCHANGED <<op, uploaded_file, args, endpoint, credential, upstream,
                 attempts, sleeps, events, response, returned, raised,
                 session_state>>

\* mutant: _convert_result_to_dict has no try statement of its own, so that
\* an exception of the conversion reaches the except clause of the loop
AD_Attempt_conversion_unguarded(r, next) ==
  /\ pc = "ad_loop"
  /\ IF retry_count < max_retries
     THEN /\ Submit(next)
          /\ IF Val(upstream) = "ok" /\ ~convert_raises(r)
             THEN /\ response' = Some(r)
                  /\ ReturnValue(convert_result_to_dict(r))
                  /\ UNCHANGED retry_count
             ELSE /\ retry_count' = retry_count + 1
                  /\ response' = IF Val(upstream) = "ok" THEN Some(r)
                                 ELSE response
                  /\ IF retries_exhausted(retry_count + 1)
                     THEN Raise(Exc("TypeError", "none", <<"TypeError">>))
                     ELSE /\ pc' = "ad_sleep"
                          /\ UNCHANGED <<returned, raised>>
     ELSE /\ pc' = "done"
          /\ UNCHANGED <<upstream, attempts, events, response, retry_count,
                         returned, raised>>
  /\ UNCHANGED <<op, uploaded_file, args, endpoint, credential, sleeps,
                 session_state>>

\* analyze_document, lines 94-118: the loop test and one pass of the try
\* statement up to the backoff; r is the result the poller gives when the
\* service answers ok
AD_Attempt(r, next) ==
  /\ pc = "ad_loop"
  /\ IF retry_count < max_retries
     THEN /\ Submit(next)
          /\ IF Val(upstream) = "ok"
             THEN /\ response' = Some(r)
                  /\ ReturnValue(convert_result_to_dict(r))
                  /\ UNCHANGED retry_count
             ELSE /\ retry_count' = retry_count + 1
                  /\ UNCHANGED response
                  /\ IF retries_exhausted(retry_count + 1)
                     THEN Raise(UpstreamException(Val(upstream),
                                                  Len(attempts) + 1))
                     ELSE /\ pc' = "ad_sleep"
                          /\ UNCHANGED <<returned, raised>>
     ELSE \* the loop ends and the function returns None
          /\ pc' = "done"
          /\ UNCHANGED <<upstream, attempts, events, response, retry_count,
                         returned, raised>>
  /\ UNCHANGED <<op, uploaded_file, args, endpoint, credential, sleeps,
                 session_state>>

\* mutant: the first delay is one second
backoff_from_one_second(count) == 2 ^ (count - 1)

\* line 122: 2 ** retry_count
backoff(count) == 2 ^ count

\* analyze_document, lines 120-122: time.sleep(2 ** retry_count)
AD_Sleep ==
  /\ pc = "ad_sleep"
  /\ sleeps' = Append(sleeps, backoff(retry_count))
  /\ events' = Append(events, "sleep")
  /\ pc' = "ad_loop"
  /\ UNCHANGED <<op, uploaded_file, args, endpoint, credential, upstream,
                 attempts, retry_count, response, returned, raised,
                 session_state>>

\* mutant: the file name is not stored
store_result_without_filename(state, result, name) ==
  Assign(state, "analysis_result", result)

\* main, lines 304-305
store_result(state, result, name) ==
  Assign(Assign(state, "analysis_result", result), "filename", name)

\* the caller has the outcome: main stores the result analyze_document
\* returned (lines 304-305) or reports the exception it raised (309-311);
\* the next call starts from scratch
Finish ==
  /\ pc = "done"
  /\ pc' = "idle"
  /\ op' = "none"
  /\ uploaded_file' = None
  /\ args' = NoArgs
  /\ endpoint' = None
  /\ credential' = None
  /\ upstream' = None
  /\ attempts' = << >>
  /\ retry_count' = 0
  /\ sleeps' = << >>
  /\ events' = << >>
  /\ response' = None
  /\ returned' = None
  /\ raised' = None
  /\ session_state' =
       IF op = "analyze_document" /\ ~IsNone(returned)
       THEN store_result(session_state, Val(returned), Val(uploaded_file).name)
       ELSE session_state

Next ==
  \/ \E file \in SampleFiles, ep \in EndpointArgs, use_key \in BOOLEAN,
        key \in ApiKeyArgs : ED_Call(file, ep, use_key, key)
  \/ ED_Validate
  \/ \E env \in EndpointEnv : ED_Endpoint(env)
  \/ \E env_key \in ApiKeyEnv, default_ok \in BOOLEAN, browser_ok \in BOOLEAN,
        answer \in Outcomes :
       ED_Credential(env_key, default_ok, browser_ok, answer)
  \/ \E r \in SampleResults, next \in Outcomes : ED_Submit(r, next)
  \/ ED_Transform
  \/ \E file \in SampleFiles, ep \in {"", "https://ui.example"},
        auth_method \in {"managed_identity", "key"} :
       Main_Analyze(file, ep, auth_method)
  \/ \E env_key \in ApiKeyEnv, default_ok \in BOOLEAN, answer \in Outcomes :
       P_Init(env_key, default_ok, answer)
  \/ AD_Call
  \/ \E r \in SampleResults, next \in Outcomes : AD_Attempt(r, next)
  \/ AD_Sleep
  \/ Finish

Spec == Init /\ [][Next]_vars

\* analyze_document runs on: the statement it is at is executed, and a
\* submission it has made completes or fails
Fairness ==
  /\ WF_vars(AD_Call)
  /\ WF_vars(\E r \in SampleResults, next \in Outcomes : AD_Attempt(r, next))
  /\ WF_vars(AD_Sleep)

SpecLive == Init /\ [][Next]_vars /\ Fairness

-----------------------------------------------------------------------------
(* Specifications of the pure parts: the same actions, from initial states *)
(* that draw the input of the function from a larger set                   *)

\* extract_data is at its validation step, for every file of Files
InitValidate ==
  /\ pc = "ed_validate"
  /\ op = "extract_data"
  /\ uploaded_file \in Files
  /\ args = NoArgs
  /\ endpoint = None
  /\ credential = None
  /\ upstream = None
  /\ attempts = << >>
  /\ retry_count = 0
  /\ sleeps = << >>
  /\ events = << >>
  /\ response = None
  /\ returned = None
  /\ raised = None
  /\ session_state = << >>

NextValidate == ED_Validate

SpecValidate == InitValidate /\ [][NextValidate]_vars

\* extract_data has received the result of its submission, for every result
\* of AllResults
InitTransform ==
  /\ pc = "ed_transform"
  /\ op = "extract_data"
  /\ uploaded_file =
       Some([name |-> <<"a",".","p","d","f">>,
             type |-> Some(S_application_pdf), size |-> 1])
  /\ args = [NoArgs EXCEPT !.endpoint = Some("https://arg.example")]
  /\ endpoint = Some("https://arg.example")
  /\ credential = Some([kind |-> "DefaultAzureCredential", key |-> ""])
  /\ upstream = Some("ok")
  /\ attempts = <<"ok">>
  /\ retry_count = 0
  /\ sleeps = << >>
  /\ events = <<"validate", "endpoint", "credential", "submit">>
  /\ response \in {Some(r) : r \in AllResults}
  /\ returned = None
  /\ raised = None
  /\ session_state = << >>

NextTransform == ED_Transform

SpecTransform == InitTransform /\ [][NextTransform]_vars

-----------------------------------------------------------------------------
(* Claims *)

NineKeys ==
  {"paragraphs", "headers", "formulas", "tables", "key_value_pairs",
   "bounding_boxes", "pages", "document_metadata", "confidence_scores"}

ConfidenceKeys ==
  {"average_paragraph_confidence", "average_table_confidence",
   "average_formula_confidence", "min_confidence", "max_confidence"}

\* the upstream result has no paragraph, no table and no formula
NothingToExtract(result) ==
  /\ Len(Items(result.paragraphs)) = 0
  /\ Len(Items(result.tables)) = 0
  /\ Len(Items(result.formulas)) = 0

ExtractDataReturned ==
  op = "extract_data" /\ pc = "done" /\ ~IsNone(returned)

\* C1: every result extract_data returns has exactly the nine top-level
\* keys; when the upstream result has no paragraphs, tables or formulas, the
\* three lists are empty, headers is an empty mapping and the five fields of
\* confidence_scores are all null.
C1_NineKeysAlways ==
  ExtractDataReturned =>
    /\ DOMAIN Val(returned) = NineKeys
    /\ DOMAIN Val(returned).confidence_scores = ConfidenceKeys
    /\ NothingToExtract(Val(response)) =>
         /\ Val(returned).paragraphs = << >>
         /\ Val(returned).tables = << >>
         /\ Val(returned).formulas = << >>
         /\ DOMAIN Val(returned).headers = {}
         /\ \A k \in ConfidenceKeys :
              IsNone(Val(returned).confidence_scores[k])

\* C1 witness: extract_data returned for a result with nothing to extract
C1_Witness ==
  ExtractDataReturned /\ NothingToExtract(Val(response))


\* the error kinds of the validation, by message
ErrorKind(msg) ==
  CASE msg = "No file provided" -> "EmptyInput"
    [] msg = "Invalid file type" -> "UnsupportedType"
    [] msg = "Invalid MIME type" -> "UnsupportedType"
    [] msg = "File is empty" -> "EmptyFile"
    [] msg = "File too large" -> "FileTooLarge"
    [] OTHER -> "ok"

\* the name ends in .pdf, in any letter case
ExtensionAccepted(f) ==
  \E i \in 1..Len(f.name) : Lower(SubSeq(f.name, i, Len(f.name))) = S_dot_pdf

\* the declared MIME type is absent (None or empty) or a PDF type
MimeAccepted(f) ==
  \/ IsNone(f.type)
  \/ Val(f.type) = << >>
  \/ Lower(Val(f.type)) \in {S_application_pdf, S_application_x_pdf}

\* the checks of the validation, 1..5 in the order of the claim, that the
\* file violates; a null reference has no name, type or length to check
ViolatedChecks(file) ==
  IF IsNone(file) THEN {1}
  ELSE LET f == Val(file) IN
    {k \in 2..5 : CASE k = 2 -> ~ExtensionAccepted(f)
                    [] k = 3 -> ~MimeAccepted(f)
                    [] k = 4 -> f.size = 0
                    [] OTHER -> f.size > 524288000}

CheckError(k) ==
  <<"No file provided", "Invalid file type", "Invalid MIME type",
    "File is empty", "File too large">>[k]

Least(S) == CHOOSE k \in S : \A j \in S : k <= j

\* extract_data is past its validation step
ValidateRan == op = "extract_data" /\ pc # "idle" /\ pc # "ed_validate"

\* the message the validation failed with, "ok" when it passed
ValidationError ==
  IF pc = "done" /\ ~IsNone(raised) /\ events = << >>
  THEN Val(raised).msg[2] ELSE "ok"

\* C6: the validation reports the error of the earliest violated check in
\* the order null reference, extension, MIME type, zero length, over 500 MiB,
\* and passes when no check is violated.
C6_EarliestViolatedCheck ==
  ValidateRan =>
    LET V == ViolatedChecks(uploaded_file) IN
    IF V = {} THEN ValidationError = "ok"
    ELSE ValidationError = CheckError(Least(V))

\* C6 witness: a file that violates the extension, MIME and length checks
\* was rejected for its extension
C6_Witness ==
  /\ ValidateRan
  /\ {2, 3, 4} \subseteq ViolatedChecks(uploaded_file)
  /\ ValidationError = "Invalid file type"

\* C7 as stated: an empty file fails with EmptyFile whatever its extension
\* and MIME type.
C7_EmptyFileRegardless ==
  (ValidateRan /\ ~IsNone(uploaded_file) /\ Val(uploaded_file).size = 0) =>
    ErrorKind(ValidationError) = "EmptyFile"

\* C7 amended: an empty file with an accepted extension and an absent or
\* accepted MIME type fails with EmptyFile; with another extension or MIME
\* type it fails with UnsupportedType.
C7_EmptyFileAfterTypeChecks ==
  (ValidateRan /\ ~IsNone(uploaded_file) /\ Val(uploaded_file).size = 0) =>
    ErrorKind(ValidationError) =
      IF ExtensionAccepted(Val(uploaded_file))
         /\ MimeAccepted(Val(uploaded_file))
      THEN "EmptyFile" ELSE "UnsupportedType"

\* C7 witness: an empty .pdf file of an accepted MIME type was rejected as
\* empty
C7_Witness ==
  /\ ValidateRan
  /\ ~IsNone(uploaded_file)
  /\ Val(uploaded_file).size = 0
  /\ ~IsNone(Val(uploaded_file).type)
  /\ ExtensionAccepted(Val(uploaded_file))
  /\ MimeAccepted(Val(uploaded_file))
  /\ ValidationError = "File is empty"

\* C8: a file with an accepted extension and an absent or accepted MIME type
\* passes exactly when 0 < length <= 524288000; one byte more fails with
\* FileTooLarge.
C8_SizeLimit ==
  (/\ ValidateRan
   /\ ~IsNone(uploaded_file)
   /\ ExtensionAccepted(Val(uploaded_file))
   /\ MimeAccepted(Val(uploaded_file))) =>
    LET size == Val(uploaded_file).size IN
    /\ ValidationError = "ok" <=> (0 < size /\ size <= 524288000)
    /\ size = 524288001 => ErrorKind(ValidationError) = "FileTooLarge"

\* C8 witness: a file of exactly 500 MiB passed the validation
C8_Witness ==
  /\ ValidateRan
  /\ pc = "ed_endpoint"
  /\ ~IsNone(uploaded_file)
  /\ Val(uploaded_file).size = 524288000


-----------------------------------------------------------------------------

AllFailed(answers) == \A i \in 1..Len(answers) : answers[i] # "ok"

\* the call ended after submissions that all failed
EndedAfterFailures ==
  pc = "done" /\ Len(attempts) > 0 /\ AllFailed(attempts)

\* C2 as stated: a call makes at most 3 submissions, and a call whose
\* submissions all fail surfaces the failure after exactly 3 of them.
C2_ExactlyThreeAttempts ==
  /\ Len(attempts) <= 3
  /\ EndedAfterFailures => (~IsNone(raised) /\ Len(attempts) = 3)

\* C2 amended: analyze_document makes at most 3 submissions and raises after
\* exactly 3 when they all fail; extract_data makes one submission and raises
\* as soon as it fails.
C2_ThreeAttemptsOrOne ==
  /\ Len(attempts) <= 3
  /\ (op = "analyze_document" /\ EndedAfterFailures) =>
       (~IsNone(raised) /\ Len(attempts) = 3)
  /\ op = "extract_data" => Len(attempts) <= 1
  /\ (op = "extract_data" /\ Len(attempts) > 0 /\ AllFailed(attempts)) =>
       (pc = "done" /\ ~IsNone(raised))

\* C2 witness: analyze_document raised after three failed submissions, and a
\* fourth would have failed as well
C2_Witness ==
  /\ op = "analyze_document"
  /\ EndedAfterFailures
  /\ Len(attempts) = 3
  /\ ~IsNone(raised)
  /\ Val(upstream) # "ok"

Transient(answer) ==
  answer \in {"HttpResponseError_5xx", "ServiceRequestError"}

\* C3 as stated: after three consecutive transient failures with a success
\* to follow, the call returns the successful result.
C3_SuccessAfterThreeFailures ==
  (/\ pc = "done"
   /\ Len(attempts) = 3
   /\ \A i \in 1..3 : Transient(attempts[i])
   /\ Val(upstream) = "ok") =>
    (~IsNone(returned) /\ IsNone(raised))

\* C3 amended: analyze_document goes on to a further submission after a
\* first and a second consecutive failure and returns the result of the
\* first submission that succeeds; after a third consecutive failure it
\* raises, whatever a fourth submission would have answered.  extract_data
\* raises after its first failure.
C3_SuccessAfterAtMostTwoFailures ==
  /\ (op = "analyze_document" /\ Len(attempts) \in {1, 2}
      /\ AllFailed(attempts)) => pc \in {"ad_sleep", "ad_loop"}
  /\ (op = "analyze_document" /\ Len(attempts) > 0
      /\ attempts[Len(attempts)] = "ok") =>
       /\ pc = "done"
       /\ IsNone(raised)
       /\ returned = Some(convert_result_to_dict(Val(response)))
  /\ (op = "analyze_document" /\ Len(attempts) = 3 /\ AllFailed(attempts)) =>
       (pc = "done" /\ ~IsNone(raised) /\ IsNone(returned))
  /\ (op = "extract_data" /\ Len(attempts) > 0 /\ AllFailed(attempts)) =>
       (pc = "done" /\ ~IsNone(raised) /\ IsNone(returned))

\* C3 witness: analyze_document returned after two transient failures and a
\* success
C3_Witness ==
  /\ op = "analyze_document"
  /\ pc = "done"
  /\ Len(attempts) = 3
  /\ Transient(attempts[1])
  /\ Transient(attempts[2])
  /\ attempts[3] = "ok"
  /\ ~IsNone(returned)

\* C4: after a submission that failed with a 4xx client error, the call
\* makes no further submission.
C4_FailFastOn4xx ==
  \A i \in 1..(Len(attempts) - 1) : attempts[i] # "HttpResponseError_4xx"

SetupSteps == {"validate", "endpoint", "credential"}

Occurrences(step) == Cardinality({i \in 1..Len(events) : events[i] = step})

\* C5: a submission is made only after the validation, the endpoint and the
\* credential steps have succeeded, in this order and once each; a call in
\* which one of them fails ends at once, with no submission.
C5_NoSubmissionBeforeSetup ==
  /\ \A i \in 1..Len(events) :
       events[i] = "submit" =>
         \E j, k, l \in 1..(i - 1) :
           /\ j < k /\ k < l
           /\ events[j] = "validate"
           /\ events[k] = "endpoint"
           /\ events[l] = "credential"
  /\ \A step \in SetupSteps : Occurrences(step) <= 1
  /\ Len(attempts) > 0 =>
       /\ op = "extract_data" => ViolatedChecks(uploaded_file) = {}
       /\ ~Falsy(endpoint)
       /\ ~IsNone(credential)
       /\ Val(credential).kind = "AzureKeyCredential" =>
            Val(credential).key # ""
  /\ (op # "none" /\ pc \notin {"ed_validate", "ed_endpoint", "ed_credential",
                                "p_init"}
      /\ Occurrences("credential") = 0) =>
       (pc = "done" /\ attempts = << >> /\ IsNone(returned))

\* C5 witness: extract_data passed the validation and resolved the endpoint,
\* then failed to get a credential and ended without a submission
C5_Witness ==
  /\ op = "extract_data"
  /\ pc = "done"
  /\ events = <<"validate", "endpoint">>
  /\ ~IsNone(raised)
  /\ attempts = << >>


-----------------------------------------------------------------------------

LevelTag(k) == <<S_h1, S_h2, S_h3, S_h4, S_h5, S_h6>>[k]
LevelName(k) == <<"h1", "h2", "h3", "h4", "h5", "h6">>[k]

\* the levels whose tag occurs in the lower-cased role
TagsIn(role) ==
  LET role_lower == Lower(role) IN
  {k \in 1..6 : Contains(role_lower, LevelTag(k))}

\* the paragraph has a role that contains "title" or "heading", in any case
HeaderRole(paragraph) ==
  /\ ~IsNone(paragraph.role)
  /\ \/ Contains(Lower(Val(paragraph.role)), S_title)
     \/ Contains(Lower(Val(paragraph.role)), S_heading)

\* the level C9 states: the first tag that occurs, h1 when none does
StatedLevel(role) ==
  LET tags == TagsIn(role) IN
  IF tags = {} THEN "h1" ELSE LevelName(Least(tags))

\* the level of C9 as amended: h1 when "title" occurs, else as stated
AmendedLevel(role) ==
  IF Contains(Lower(role), S_title) THEN "h1" ELSE StatedLevel(role)

\* the paragraphs of the result extract_data received
ReceivedParagraphs == Items(Val(response).paragraphs)

\* the record of paragraph i is in the headers mapping under level
HeaderUnder(i, level) ==
  /\ level \in DOMAIN Val(returned).headers
  /\ \E j \in 1..Len(Val(returned).headers[level]) :
       Val(returned).headers[level][j].content = ReceivedParagraphs[i].content

\* C9 as stated: every header paragraph is under the first of h1..h6 that
\* occurs in its lower-cased role, and under h1 only when none occurs.
C9_FirstTagWins ==
  ExtractDataReturned =>
    \A i \in 1..Len(ReceivedParagraphs) :
      HeaderRole(ReceivedParagraphs[i]) =>
        HeaderUnder(i, StatedLevel(Val(ReceivedParagraphs[i].role)))

\* C9 amended: a header paragraph whose lower-cased role contains "title"
\* is under h1 whatever tags the role contains; any other header paragraph
\* is under the first of h1..h6 that occurs in its role, and under h1 when
\* none occurs.
C9_TitleThenFirstTag ==
  ExtractDataReturned =>
    \A i \in 1..Len(ReceivedParagraphs) :
      HeaderRole(ReceivedParagraphs[i]) =>
        LET level == AmendedLevel(Val(ReceivedParagraphs[i].role)) IN
        /\ HeaderUnder(i, level)
        /\ \A k \in 1..6 : LevelName(k) # level => ~HeaderUnder(i, LevelName(k))

\* C9 witness: a paragraph whose role contains "title" and "h2" but not "h1"
\* is under h1, next to one with role "sectionHeading h2" under h2
C9_Witness ==
  /\ ExtractDataReturned
  /\ \E i, j \in 1..Len(ReceivedParagraphs) :
       /\ HeaderRole(ReceivedParagraphs[i])
       /\ Contains(Lower(Val(ReceivedParagraphs[i].role)), S_title)
       /\ TagsIn(Val(ReceivedParagraphs[i].role)) = {2}
       /\ HeaderUnder(i, "h1")
       /\ ReceivedParagraphs[j].role =
            Some(Cat(S_sectionHeading, Cat(Space, S_h2)))
       /\ HeaderUnder(j, "h2")

\* the places <<level, j>> of the headers mapping
HeaderPlaces ==
  {pl \in (DOMAIN Val(returned).headers) \X (1..Len(ReceivedParagraphs)) :
     pl[2] <= Len(Val(returned).headers[pl[1]])}

\* the index of the paragraph a header record was made from: contents are
\* distinct within one result
SourceOf(pl) ==
  {i \in 1..Len(ReceivedParagraphs) :
     ReceivedParagraphs[i].content =
       Val(returned).headers[pl[1]][pl[2]].content}

\* C10: the headers mapping holds exactly one record for every paragraph
\* whose role contains "title" or "heading" in any case and none for any
\* other paragraph, and the records of one level are in paragraph order.
C10_HeadersExactlyTheHeaderParagraphs ==
  ExtractDataReturned =>
    /\ \A i \in 1..Len(ReceivedParagraphs) :
         Cardinality({pl \in HeaderPlaces : i \in SourceOf(pl)}) =
           IF HeaderRole(ReceivedParagraphs[i]) THEN 1 ELSE 0
    /\ \A pl \in HeaderPlaces : Cardinality(SourceOf(pl)) = 1
    /\ \A pl, pm \in HeaderPlaces :
         (pl[1] = pm[1] /\ pl[2] < pm[2]) =>
           \A i \in SourceOf(pl), j \in SourceOf(pm) : i < j

\* C10 witness: two header paragraphs of one level with a pageFooter
\* paragraph between them; the footer has no record
C10_Witness ==
  /\ ExtractDataReturned
  /\ Len(ReceivedParagraphs) = 3
  /\ HeaderRole(ReceivedParagraphs[1])
  /\ ReceivedParagraphs[2].role =
       Some(<<"p","a","g","e","F","o","o","t","e","r">>)
  /\ HeaderRole(ReceivedParagraphs[3])
  /\ \E level \in DOMAIN Val(returned).headers :
       /\ Len(Val(returned).headers[level]) = 2
       /\ Val(returned).headers[level][1].content = "p1"
       /\ Val(returned).headers[level][2].content = "p3"

-----------------------------------------------------------------------------

\* the non-null confidences of the elements of an upstream list, in order
Pool(elements) ==
  LET present == SelectSeq(Items(elements), LAMBDA x : ~IsNone(x.confidence))
  IN [i \in 1..Len(present) |-> Val(present[i].confidence)]

ParagraphPool == Pool(Val(response).paragraphs)
TablePool == Pool(Val(response).tables)
FormulaPool == Pool(Val(response).formulas)
CombinedPool == ParagraphPool \o TablePool \o FormulaPool

PoolValues(pool) == {pool[i] : i \in 1..Len(pool)}

\* the score is null for an empty pool, and else the fraction in lowest
\* terms whose value is the sum of the pool divided by its length
IsMeanOf(score, pool) ==
  IF pool = << >> THEN IsNone(score)
  ELSE /\ ~IsNone(score)
       /\ Val(score).den > 0
       /\ Val(score).num * Len(pool) = Sum(pool) * Val(score).den
       /\ \A g \in 2..Val(score).den :
            ~(Val(score).num % g = 0 /\ Val(score).den % g = 0)

\* C11: each average is the arithmetic mean of the non-null confidences of
\* its own kind of element and is null exactly when there is none; the
\* minimum and the maximum are those of the three pools together and are
\* null exactly when all three are empty.
C11_ConfidenceScores ==
  ExtractDataReturned =>
    LET scores == Val(returned).confidence_scores IN
    /\ IsMeanOf(scores.average_paragraph_confidence, ParagraphPool)
    /\ IsMeanOf(scores.average_table_confidence, TablePool)
    /\ IsMeanOf(scores.average_formula_confidence, FormulaPool)
    /\ IF CombinedPool = << >>
       THEN IsNone(scores.min_confidence) /\ IsNone(scores.max_confidence)
       ELSE /\ ~IsNone(scores.min_confidence)
            /\ ~IsNone(scores.max_confidence)
            /\ Val(scores.min_confidence) \in PoolValues(CombinedPool)
            /\ Val(scores.max_confidence) \in PoolValues(CombinedPool)
            /\ \A v \in PoolValues(CombinedPool) :
                 /\ Val(scores.min_confidence) <= v
                 /\ v <= Val(scores.max_confidence)

\* C11 witness: paragraph confidences 90 and 70, one table of confidence 70
\* and a formula without confidence give the averages 80, 70 and null, the
\* minimum 70 and the maximum 90
C11_Witness ==
  /\ ExtractDataReturned
  /\ ParagraphPool = <<90, 70>>
  /\ TablePool = <<70>>
  /\ Len(Items(Val(response).formulas)) = 1
  /\ FormulaPool = << >>
  /\ Val(returned).confidence_scores =
       [average_paragraph_confidence |-> Some([num |-> 80, den |-> 1]),
        average_table_confidence |-> Some([num |-> 70, den |-> 1]),
        average_formula_confidence |-> None,
        min_confidence |-> Some(70),
        max_confidence |-> Some(90)]

-----------------------------------------------------------------------------

\* the call received an upstream result and its transformation of that
\* result raised
TransformationFailed ==
  /\ pc = "done"
  /\ ~IsNone(response)
  /\ IF op = "extract_data" THEN transform_raises(Val(response))
     ELSE convert_raises(Val(response))

\* the call returned the degraded result {error, raw_content}
ReturnedDegraded ==
  /\ IsNone(raised)
  /\ ~IsNone(returned)
  /\ DOMAIN Val(returned) = {"error", "raw_content"}

\* C12 as stated: a transformation that raises gives the degraded result
\* {error, raw_content}, returned to the caller; nothing is raised.
C12_TransformationFailsSoft ==
  TransformationFailed => ReturnedDegraded

\* C12 amended: analyze_document returns the degraded result when its
\* conversion raises; extract_data raises DocumentIntelligenceError
\* "Unexpected error during document analysis: ..." and returns nothing when
\* its transformation raises.
C12_SoftInAppHardInExtractData ==
  TransformationFailed =>
    IF op = "analyze_document" THEN ReturnedDegraded
    ELSE /\ IsNone(returned)
         /\ ~IsNone(raised)
         /\ Val(raised).type = "DocumentIntelligenceError"
         /\ Val(raised).msg[1] = "Unexpected error during document analysis: "

\* C12 witness: analyze_document received a result with a line whose region
\* has no polygon and returned the degraded result
C12_Witness ==
  /\ op = "analyze_document"
  /\ TransformationFailed
  /\ ReturnedDegraded
  /\ Val(returned).raw_content = Some("str(result)")

-----------------------------------------------------------------------------

\* the caller asked for key-based authentication
KeyMode ==
  IF op = "extract_data" THEN args.use_key_credential
  ELSE args.credential_type = "key"

\* the call is past its credential step
CredentialStepDone ==
  /\ op # "none"
  /\ pc \notin {"idle", "ed_credential", "p_init"}
  /\ Len(events) >= 2
  /\ events[2] = "endpoint"

\* the credential step failed: the call ended there
CredentialStepFailed ==
  CredentialStepDone /\ events = <<"validate", "endpoint">>

KeyCredential(key) == Some([kind |-> "AzureKeyCredential", key |-> key])

\* the values the key environment variable can have when it is set
EnvKeys == {Val(k) : k \in {e \in ApiKeyEnv : ~Falsy(e)}}

\* the messages of the two failures of the credential step
MissingCredential ==
  IF op = "extract_data" THEN "API key not provided"
  ELSE "DOCUMENT_INTELLIGENCE_KEY environment variable not set"

CredentialUnavailable ==
  IF op = "extract_data" THEN "Failed to acquire Azure credentials"
  ELSE "DefaultAzureCredential failed"

CredentialFailure == Val(raised).msg[Len(Val(raised).msg)]

\* C13: in key mode the credential is the key of the explicit parameter when
\* one is given and else the key of the environment, and the call fails with
\* the missing-key error when there is neither; it is never an ambient or a
\* browser credential and never the failure of one.  In ambient mode the
\* credential is an ambient or a browser credential without a key, and the
\* call never fails for a missing key.
C13_OneCredentialKind ==
  CredentialStepDone =>
    IF KeyMode
    THEN /\ (op = "extract_data" /\ ~Falsy(args.api_key)) =>
              credential = KeyCredential(Val(args.api_key))
         /\ IF CredentialStepFailed
            THEN /\ IsNone(credential)
                 /\ ~IsNone(raised)
                 /\ CredentialFailure = MissingCredential
                 /\ attempts = << >>
            ELSE \E key \in EnvKeys \cup {"arg-key"} :
                   /\ credential = KeyCredential(key)
                   /\ key \in EnvKeys <=>
                        (op = "analyze_document" \/ Falsy(args.api_key))
    ELSE IF CredentialStepFailed
    THEN /\ IsNone(credential)
         /\ ~IsNone(raised)
         /\ CredentialFailure = CredentialUnavailable
    ELSE /\ ~IsNone(credential)
         /\ Val(credential).kind \in
              {"DefaultAzureCredential", "InteractiveBrowserCredential"}
         /\ Val(credential).key = ""
         /\ op = "analyze_document" =>
              Val(credential).kind = "DefaultAzureCredential"

\* C13 witness: extract_data in key mode without a key parameter has
\* submitted the document with the key of the environment
C13_Witness ==
  /\ op = "extract_data"
  /\ CredentialStepDone
  /\ KeyMode
  /\ IsNone(args.api_key)
  /\ credential = KeyCredential("env-key")
  /\ Len(attempts) = 1

-----------------------------------------------------------------------------

\* the exception type of a failing answer of the service
UpstreamType(answer) ==
  IF answer = "ServiceRequestError" THEN "ServiceRequestError"
  ELSE "HttpResponseError"

\* the message of the failure of submission n of this call
AttemptMessage(n) == <<attempts[n], n>>

\* the raised exception carries msg at the end of its message
Carries(msg) ==
  /\ Len(Val(raised).msg) >= Len(msg)
  /\ SubSeq(Val(raised).msg, Len(Val(raised).msg) - Len(msg) + 1,
            Len(Val(raised).msg)) = msg

-----------------------------------------------------------------------------

\* the submissions and sleeps of the call, in order
RetrySteps == SelectSeq(events, LAMBDA e : e \in {"submit", "sleep"})

\* C15: the submissions and the sleeps of a call alternate, starting with a
\* submission: one sleep between two consecutive submissions, none before
\* the first; the sleep after failed attempt k lasts 2^k seconds; a call
\* that has ended has slept once less than it has submitted, so not after
\* its last attempt; a sleep follows a failed attempt only.
C15_OneBackoffBetweenAttempts ==
  /\ \A i \in 1..Len(RetrySteps) :
       RetrySteps[i] = IF i % 2 = 1 THEN "submit" ELSE "sleep"
  /\ \A k \in 1..Len(sleeps) :
       /\ sleeps[k] = 2 ^ k
       /\ k <= Len(attempts)
       /\ attempts[k] # "ok"
  /\ Len(RetrySteps) = Len(attempts) + Len(sleeps)
  /\ (pc = "done" /\ Len(attempts) > 0) => Len(sleeps) = Len(attempts) - 1
  /\ pc = "ad_sleep" => Len(sleeps) = Len(attempts) - 1
  /\ (pc = "ad_loop" /\ Len(attempts) > 0) => Len(sleeps) = Len(attempts)
  /\ op = "extract_data" => sleeps = << >>

\* C15 witness: analyze_document ended after three failed attempts with a
\* sleep of 2 s after the first and of 4 s after the second
C15_Witness ==
  /\ op = "analyze_document"
  /\ EndedAfterFailures
  /\ RetrySteps = <<"submit", "sleep", "submit", "sleep", "submit">>
  /\ sleeps = <<2, 4>>

-----------------------------------------------------------------------------

ExtractDataEnded == op = "extract_data" /\ pc = "done"

\* the mapping has the nine keys, one record for every element of the
\* received result, and the metadata and confidence records in full
CompleteResult(d, result) ==
  /\ DOMAIN d = NineKeys
  /\ Len(d.paragraphs) = Len(Items(result.paragraphs))
  /\ Len(d.formulas) = Len(Items(result.formulas))
  /\ Len(d.tables) = Len(Items(result.tables))
  /\ Len(d.key_value_pairs) = Len(Items(result.key_value_pairs))
  /\ Len(d.pages) = Len(Items(result.pages))
  /\ DOMAIN d.document_metadata =
       {"model_id", "total_pages", "file_name", "file_size_bytes",
        "content_length"}
  /\ DOMAIN d.confidence_scores = ConfidenceKeys

\* C16: extract_data ends either by returning a complete result mapping or
\* by raising DocumentIntelligenceError, never both and never another
\* exception type, whatever step failed; it returns only after a successful
\* submission.
C16_ReturnsOrRaisesDocumentIntelligenceError ==
  ExtractDataEnded =>
    /\ IsNone(returned) # IsNone(raised)
    /\ ~IsNone(raised) => Val(raised).type = "DocumentIntelligenceError"
    /\ ~IsNone(returned) =>
         /\ attempts = <<"ok">>
         /\ ~IsNone(response)
         /\ CompleteResult(Val(returned), Val(response))

\* the step at which extract_data failed
FailedStep ==
  CASE events = << >> -> "validation"
    [] events = <<"validate">> -> "endpoint"
    [] events = <<"validate", "endpoint">> -> "authentication"
    [] IsNone(response) -> "submission"
    [] OTHER -> "processing"

\* C16 witness: extract_data received a result, its transformation raised a
\* TypeError, and the call raised DocumentIntelligenceError
C16_Witness ==
  /\ ExtractDataEnded
  /\ ~IsNone(raised)
  /\ FailedStep = "processing"
  /\ Val(raised).type = "DocumentIntelligenceError"
  /\ Val(raised).msg[Len(Val(raised).msg)] = "TypeError"

-----------------------------------------------------------------------------
(* Python values by kind, and the json module on them *)

PyNone == [py |-> "None"]
PyScalar(v) == [py |-> "scalar", value |-> v]
PyList(items) == [py |-> "list", items |-> items]
PyTuple(items) == [py |-> "tuple", items |-> items]
PyDict(members) == [py |-> "dict", members |-> members]

\* json.dumps: a list and a tuple are both written as an array
RECURSIVE json_dumps(_)
json_dumps(v) ==
  CASE v.py = "None" -> [json |-> "null"]
    [] v.py = "scalar" -> [json |-> "value", value |-> v.value]
    [] v.py \in {"list", "tuple"} ->
         [json |-> "array",
          items |-> [i \in 1..Len(v.items) |-> json_dumps(v.items[i])]]
    [] OTHER ->
         [json |-> "object",
          members |-> [k \in DOMAIN v.members |-> json_dumps(v.members[k])]]

\* json.loads: an array is read as a list
RECURSIVE json_loads(_)
json_loads(j) ==
  CASE j.json = "null" -> PyNone
    [] j.json = "value" -> PyScalar(j.value)
    [] j.json = "array" ->
         PyList([i \in 1..Len(j.items) |-> json_loads(j.items[i])])
    [] OTHER ->
         PyDict([k \in DOMAIN j.members |-> json_loads(j.members[k])])

\* the values of the dictionary extract_data returns, by kind
py_optional(o) == IF IsNone(o) THEN PyNone ELSE PyScalar(Val(o))

\* (point.x, point.y)
py_point(t) == PyTuple(<<PyScalar(t.tuple[1]), PyScalar(t.tuple[2])>>)

py_regions(regions) ==
  PyList([i \in 1..Len(regions) |->
            PyDict([page_number |-> PyScalar(regions[i].page_number),
                    polygon |-> PyList([k \in 1..Len(regions[i].polygon) |->
                                          py_point(regions[i].polygon[k])])])])

py_paragraph(x) ==
  PyDict([content |-> PyScalar(x.content), role |-> py_optional(x.role),
          confidence |-> py_optional(x.confidence),
          bounding_regions |-> py_regions(x.bounding_regions)])

py_header(x) ==
  PyDict([content |-> PyScalar(x.content),
          confidence |-> py_optional(x.confidence),
          bounding_regions |-> py_regions(x.bounding_regions)])

py_formula(x) ==
  PyDict([content |-> PyScalar(x.content),
          confidence |-> py_optional(x.confidence),
          kind |-> py_optional(x.kind),
          bounding_regions |-> py_regions(x.bounding_regions)])

py_cell(x) ==
  PyDict([content |-> PyScalar(x.content), row_index |-> PyScalar(x.row_index),
          column_index |-> PyScalar(x.column_index),
          row_span |-> PyScalar(x.row_span),
          column_span |-> PyScalar(x.column_span),
          confidence |-> py_optional(x.confidence),
          kind |-> py_optional(x.kind)])

py_table(x) ==
  PyDict([row_count |-> PyScalar(x.row_count),
          column_count |-> PyScalar(x.column_count),
          cells |-> PyList([i \in 1..Len(x.cells) |-> py_cell(x.cells[i])]),
          confidence |-> py_optional(x.confidence),
          bounding_regions |-> py_regions(x.bounding_regions)])

py_key_value_pair(x) ==
  PyDict([key |-> py_optional(x.key), value |-> py_optional(x.value),
          confidence |-> py_optional(x.confidence)])

py_bounding_box(x) ==
  PyDict([page_number |-> PyScalar(x.page_number),
          polygon |-> PyList([k \in 1..Len(x.polygon) |->
                                py_point(x.polygon[k])]),
          content |-> PyScalar(x.content),
          element_type |-> PyScalar(x.element_type),
          confidence |-> py_optional(x.confidence)])

py_page(x) ==
  PyDict([page_number |-> PyScalar(x.page_number), width |-> PyScalar(x.width),
          height |-> PyScalar(x.height), unit |-> py_optional(x.unit),
          angle |-> py_optional(x.angle),
          lines_count |-> PyScalar(x.lines_count),
          words_count |-> PyScalar(x.words_count)])

py_extracted_data(d) ==
  PyDict(
    [paragraphs |->
       PyList([i \in 1..Len(d.paragraphs) |-> py_paragraph(d.paragraphs[i])]),
     headers |->
       PyDict([level \in DOMAIN d.headers |->
                 PyList([i \in 1..Len(d.headers[level]) |->
                           py_header(d.headers[level][i])])]),
     formulas |->
       PyList([i \in 1..Len(d.formulas) |-> py_formula(d.formulas[i])]),
     tables |-> PyList([i \in 1..Len(d.tables) |-> py_table(d.tables[i])]),
     key_value_pairs |->
       PyList([i \in 1..Len(d.key_value_pairs) |->
                 py_key_value_pair(d.key_value_pairs[i])]),
     bounding_boxes |->
       PyList([i \in 1..Len(d.bounding_boxes) |->
                 py_bounding_box(d.bounding_boxes[i])]),
     pages |-> PyList([i \in 1..Len(d.pages) |-> py_page(d.pages[i])]),
     document_metadata |->
       PyDict([k \in DOMAIN d.document_metadata |->
                 PyScalar(d.document_metadata[k])]),
     confidence_scores |->
       PyDict([k \in DOMAIN d.confidence_scores |->
                 py_optional(d.confidence_scores[k])])])

\* the result extract_data returned, by kind, and what json.loads gives
\* back for its json.dumps
ReturnedValue == py_extracted_data(Val(returned))
ParsedBack == json_loads(json_dumps(ReturnedValue))

\* C17: the mapping parsed back from the JSON text of a result is identical
\* to the result: same nesting, same kinds of values, same values, the
\* polygon point sequences of bounding_regions and bounding_boxes included.
C17_JsonRoundTrip ==
  ExtractDataReturned => ParsedBack = ReturnedValue

-----------------------------------------------------------------------------

\* the submissions of the call that completed successfully
Succeeded == {i \in 1..Len(attempts) : attempts[i] = "ok"}

\* C18: in analyze_document a successful submission is the last step of the
\* call: it is the last submission, no sleep follows it, the call has ended
\* by returning, and the failure counter counts the failed submissions
\* only, whether or not the conversion of the received result raised.
C18_ConversionNeverRetried ==
  (op = "analyze_document" /\ Succeeded # {}) =>
    /\ Succeeded = {Len(attempts)}
    /\ events[Len(events)] = "submit"
    /\ Len(sleeps) = Len(attempts) - 1
    /\ retry_count = Len(attempts) - 1
    /\ pc = "done"
    /\ ~IsNone(returned)
    /\ IsNone(raised)

\* C18 witness: the first submission of analyze_document succeeded, the
\* conversion of its result raised, and the call returned at once
C18_Witness ==
  /\ op = "analyze_document"
  /\ attempts = <<"ok">>
  /\ convert_raises(Val(response))
  /\ pc = "done"
  /\ ~IsNone(returned)
  /\ retry_count = 0
  /\ sleeps = << >>

-----------------------------------------------------------------------------

\* analyze_document has been called and has not ended
AnalyzeRunning == pc \in {"ad_call", "ad_loop", "ad_sleep"}

\* analyze_document has ended
AnalyzeEnded ==
  /\ op = "analyze_document"
  /\ pc = "done"
  /\ Len(events) >= 3
  /\ events[3] = "credential"

\* the failure counter is within 0..3, the loop test is reached only with a
\* counter under 3, and a call that has ended has returned a mapping or
\* raised, and not both
AnalyzeEndsWithValue ==
  /\ retry_count \in 0..3
  /\ pc = "ad_loop" => retry_count < 3
  /\ AnalyzeEnded =>
       /\ IsNone(returned) # IsNone(raised)
       /\ ~IsNone(raised) => retry_count = 3
       /\ ~IsNone(returned) =>
            (retry_count < 3 /\ DOMAIN Val(returned) # {})

\* C19: every call of analyze_document ends when its submissions complete
\* or fail, and it ends by returning a mapping or by raising; the failure
\* counter stays within 0..3 and the loop is never left through its test.
C19_AnalyzeTerminatesWithValue ==
  /\ []AnalyzeEndsWithValue
  /\ AnalyzeRunning ~> AnalyzeEnded

\* C19 witness: analyze_document ended by raising with the counter at 3
C19_Witness ==
  /\ AnalyzeEnded
  /\ retry_count = 3
  /\ ~IsNone(raised)
  /\ IsNone(returned)

-----------------------------------------------------------------------------

SessionKeys == {"analysis_result", "filename"}

\* the session holds no result, or a result together with a file name
SessionWhole == DOMAIN session_state \in {{}, SessionKeys}

\* the running analysis has ended by returning a result
AnalysisSucceeded ==
  op = "analyze_document" /\ pc = "done" /\ ~IsNone(returned)

\* a step changes the session only at the end of an analysis that returned,
\* and then to the result it returned and the name of the file it analysed
SessionStep ==
  /\ ~AnalysisSucceeded => session_state' = session_state
  /\ DOMAIN session_state' # DOMAIN session_state =>
       (AnalysisSucceeded /\ DOMAIN session_state = {})
  /\ (AnalysisSucceeded /\ pc' = "idle") =>
       /\ DOMAIN session_state' = SessionKeys
       /\ session_state'.analysis_result = Val(returned)
       /\ session_state'.filename = Val(uploaded_file).name

\* C20: analysis_result and filename are in the session together or not at
\* all; they change only when an analysis returns a result, and then both
\* are replaced, by that result and by the name of the file it was made
\* from.  An analysis that raises, a click with an empty endpoint, an upload
\* with an unsupported extension and every step of a call leave them as
\* they are.
C20_SessionChangesOnSuccessOnly ==
  /\ []SessionWhole
  /\ [][SessionStep]_vars

\* C20 witness: with a result and a file name in the session, a later
\* analysis has failed three times and raised
C20_Witness ==
  /\ DOMAIN session_state = SessionKeys
  /\ op = "analyze_document"
  /\ pc = "done"
  /\ Len(attempts) = 3
  /\ ~IsNone(raised)

====
